---- MODULE Spec2Model ----
(***************************************************************************)
(* A model of minpower's grid topology and constraint assembly            *)
(* (powersystems.py), its time index (schedule.py) and the scenario       *)
(* set-up of get_data.py.                                                 *)
(*                                                                         *)
(* Objects are identified by their position in the list that holds them   *)
(* (generators[1] is the first generator given to PowerSystem).  Python's  *)
(* None is the string NoneVal.  Reactances are in tenths of a per-unit, so  *)
(* that 1/X is the exact integer 10 \div X for the reactances drawn here;   *)
(* floating-point rounding is not modelled.                                 *)
(***************************************************************************)
EXTENDS Integers, Sequences, FiniteSets, TLC

VARIABLES
    generators,   \* the Generator objects given to PowerSystem
    loads,        \* the Load objects given to PowerSystem
    lines,        \* the Line objects given to PowerSystem
    user_config,  \* config.user_config, read by PowerSystem.__init__
    ps,           \* the PowerSystem object (NoSystem until constructed)
    opt,          \* the optimization container: times, variables, constraints
    error,        \* the exception that reached the caller, or "none"
    horizon,      \* the TimeIndex of the whole horizon (times in get_data.parsedir)
    stage_times,  \* the sub-windows returned by times.subdivide, once made
    run,          \* the multi-stage run: its position and stage number
    sln,          \* the solution of the stage being solved
    gen_status,   \* per generator: the pending finalstatus and the initial condition
    resolve,      \* the last resolve_*_with_observed call: instance, solved flag, outcome
    scen          \* the calls of setup_scenarios and get_generator_with_scenarios

sysVars == <<generators, loads, lines, user_config, ps, opt>>
timeVars == <<horizon, stage_times>>
stageVars == <<run, sln, gen_status>>
auxVars == <<resolve, scen>>
vars == <<sysVars, error, timeVars, stageVars, auxVars>>

-----------------------------------------------------------------------------
(* Bounds of the model *)

MaxGens == 2
MaxLoads == 2
MaxLines == 2
MaxT == 2
MaxSteps == 4
MaxDivision == 2
MaxOverlap == 1

-----------------------------------------------------------------------------
(* Values *)

NoneVal == "None"
\* an attribute or argument that may be None: <<>> for None, <<v>> for the value v
None == <<>>
Some(v) == <<v>>
BusNames == {"A", "B", "C"}
BusVals == BusNames \cup {NoneVal}
\* reactances, in tenths of a per-unit: 0.1 and 0.2
XValues == {1, 2}
PmaxValues == {50}

SeqsUpTo(S, n) == UNION {[1..k -> S] : k \in 0..n}
Range(s) == {s[i] : i \in DOMAIN s}

RECURSIVE SumSeq(_)
SumSeq(s) == IF s = <<>> THEN 0 ELSE Head(s) + SumSeq(Tail(s))

RECURSIVE flatten(_)
flatten(ss) == IF ss = <<>> THEN <<>> ELSE Head(ss) \o flatten(Tail(ss))

\* list.index(x), 0-based; callers test membership first (ValueError otherwise)
ListIndex(s, x) == (CHOOSE i \in DOMAIN s : s[i] = x /\ \A j \in DOMAIN s : s[j] = x => i <= j) - 1

\* commonscripts.unique: the distinct elements in first-seen order
RECURSIVE unique(_)
unique(s) ==
    IF s = <<>> THEN <<>>
    ELSE LET init == unique(SubSeq(s, 1, Len(s) - 1))
             x == s[Len(s)]
         IN IF x \in Range(init) THEN init ELSE Append(init, x)

\* 't%02d' % i
TStrings == <<"t00", "t01", "t02", "t03", "t04", "t05", "t06", "t07", "t08", "t09">>
TStr(i) == TStrings[i + 1]

\* 1/X for a reactance given in tenths
InvX(X) == 10 \div X

-----------------------------------------------------------------------------
(* Component constructors *)

\* a generator as get_data.build_class_list leaves it: no scenarios, no
\* observed values; Pmax (MW) bounds its power and its available power
Generator(bus) ==
    [bus |-> bus, Pmax |-> 100, scenarios_filename |-> None, scenarios_directory |-> None,
     has_scenarios |-> FALSE, has_scenarios_multistage |-> None, observed_values |-> FALSE]

\* a load; its schedule has the same value (MW) at every time
Load(bus) == [bus |-> bus, schedule |-> 40, shedding_allowed |-> FALSE]

\* Line.__init__ with a float reactance of X tenths p.u.
Line(From, To, X, Pmax, Pmin) ==
    [From |-> From, To |-> To, X |-> X, Xint |-> FALSE, Pmax |-> Pmax,
     Pmin |-> IF Pmin = None THEN (-1) * Pmax ELSE Pmin[1]]

\* Line.__init__ with the reactance given as the Python int n (p.u.)
Line_intX(From, To, n, Pmax, Pmin) == [Line(From, To, 10 * n, Pmax, Pmin) EXCEPT !.Xint = TRUE]

\* 1/self.X and -1/line.X: true division for a float, floor division for an int
OneOverX(line) == IF line.Xint THEN 1 \div (line.X \div 10) ELSE InvX(line.X)
MinusOneOverX(line) ==
    IF line.Xint THEN (-1) \div (line.X \div 10) ELSE (-1) * InvX(line.X)

Bus(name, index) ==
    [name |-> name, index |-> index, isSwing |-> FALSE, generators |-> <<>>, loads |-> <<>>]

-----------------------------------------------------------------------------
(* PowerSystem.make_buses_list *)

\* a variant that attaches only the first matching object
RECURSIVE AttachTo_first(_, _, _)
AttachTo_first(objs, name, k) ==
    IF k > Len(objs) THEN <<>>
    ELSE IF objs[k].bus = name THEN <<k>> ELSE AttachTo_first(objs, name, k + 1)

\* the objects of list objs (by position) whose bus field equals name, in order
RECURSIVE AttachTo(_, _, _)
AttachTo(objs, name, k) ==
    IF k > Len(objs) THEN <<>>
    ELSE (IF objs[k].bus = name THEN <<k>> ELSE <<>>) \o AttachTo(objs, name, k + 1)

\* the body of the loop over busNameL, from position b on; swingHasBeenSet is
\* assigned inside the loop over the generators
RECURSIVE BusLoop(_, _, _, _, _)
BusLoop(busNameL, b, swingHasBeenSet, gens, lds) ==
    IF b > Len(busNameL) THEN <<>>
    ELSE LET setsSwing == (~swingHasBeenSet) /\ Len(gens) > 0
             newBus == [Bus(busNameL[b], b - 1) EXCEPT
                           !.generators = AttachTo(gens, busNameL[b], 1),
                           !.isSwing = setsSwing,
                           !.loads = AttachTo(lds, busNameL[b], 1)]
         IN <<newBus>> \o BusLoop(busNameL, b + 1, swingHasBeenSet \/ setsSwing, gens, lds)

make_buses_list(lds, gens) ==
    LET busNameL == unique([i \in 1..Len(gens) |-> gens[i].bus]
                           \o [i \in 1..Len(lds) |-> lds[i].bus])
    IN BusLoop(busNameL, 1, FALSE, gens, lds)

-----------------------------------------------------------------------------
(* PowerSystem.create_admittance_matrix *)

BusIdx(buses) == 0..(Len(buses) - 1)

\* a variant that skips a line with an unknown endpoint
RECURSIVE LineLoop_skip(_, _, _, _)
LineLoop_skip(B, buses, lns, k) ==
    IF k > Len(lns) THEN [raised |-> "none", B |-> B]
    ELSE LET namesL == [i \in 1..Len(buses) |-> buses[i].name]
             line == lns[k]
         IN IF line.From \notin Range(namesL) \/ line.To \notin Range(namesL)
            THEN LineLoop_skip(B, buses, lns, k + 1)
            ELSE LET i == ListIndex(namesL, line.From)
                     j == ListIndex(namesL, line.To)
                     B1 == [B EXCEPT ![<<i, j>>] = @ + MinusOneOverX(line)]
                     B2 == [B1 EXCEPT ![<<j, i>>] = @ + MinusOneOverX(line)]
                 IN LineLoop_skip(B2, buses, lns, k + 1)

\* the loop over the lines from position k on; namesL.index raises ValueError
\* for a name that is not a bus
RECURSIVE LineLoop(_, _, _, _)
LineLoop(B, buses, lns, k) ==
    IF k > Len(lns) THEN [raised |-> "none", B |-> B]
    ELSE LET namesL == [i \in 1..Len(buses) |-> buses[i].name]
             line == lns[k]
         IN IF line.From \notin Range(namesL) \/ line.To \notin Range(namesL)
            THEN [raised |-> "ValueError", B |-> B]
            ELSE LET busFrom == buses[ListIndex(namesL, line.From) + 1]
                     busTo == buses[ListIndex(namesL, line.To) + 1]
                     B1 == [B EXCEPT ![<<busFrom.index, busTo.index>>] = @ + MinusOneOverX(line)]
                     B2 == [B1 EXCEPT ![<<busTo.index, busFrom.index>>] = @ + MinusOneOverX(line)]
                 IN LineLoop(B2, buses, lns, k + 1)

RECURSIVE RowSum(_, _, _)
RowSum(B, i, n) == IF n = 0 THEN 0 ELSE B[<<i, n - 1>>] + RowSum(B, i, n - 1)

create_admittance_matrix(buses, lns) ==
    LET nB == Len(buses)
        zeros == [ij \in BusIdx(buses) \X BusIdx(buses) |-> 0]
        acc == LineLoop(zeros, buses, lns, 1)
    IN IF acc.raised # "none" THEN acc
       ELSE [raised |-> "none",
             B |-> [ij \in BusIdx(buses) \X BusIdx(buses) |->
                      IF ij[1] = ij[2] THEN (-1) * RowSum(acc.B, ij[1], nB) ELSE acc.B[ij]]]

-----------------------------------------------------------------------------
(* PowerSystem.__init__ *)

DefaultConfig ==
    [load_shedding_allowed |-> FALSE, reserve_fixed |-> 0, reserve_load_fraction |-> 0,
     deterministic_solve |-> FALSE]

NoSystem == [state |-> "none"]
EmptyOpt == [stage |-> "empty", times |-> <<>>, variables |-> {}, constraints |-> <<>>]

\* PowerSystem.loads() and PowerSystem.generators()
ps_loads(p) == flatten([i \in 1..Len(p.buses) |-> p.buses[i].loads])
ps_generators(p) == flatten([i \in 1..Len(p.buses) |-> p.buses[i].generators])

\* set_load_shedding: every load of the system takes the system's mode
set_load_shedding(p, lds, is_allowed) ==
    [i \in 1..Len(lds) |->
        IF i \in Range(ps_loads(p)) THEN [lds[i] EXCEPT !.shedding_allowed = is_allowed]
        ELSE lds[i]]

PowerSystem_init ==
    /\ ps = NoSystem
    /\ error = "none"
    /\ LET buses == make_buses_list(loads, generators)
           adm == create_admittance_matrix(buses, lines)
       IN IF adm.raised # "none"
          THEN /\ error' = adm.raised
               /\ UNCHANGED <<ps, loads>>
          ELSE LET p == [state |-> "constructed",
                         buses |-> buses,
                         lines |-> lines,
                         Bmatrix |-> adm.B,
                         load_shedding_allowed |-> user_config.load_shedding_allowed,
                         reserve_fixed |-> user_config.reserve_fixed,
                         reserve_load_fraction |-> user_config.reserve_load_fraction]
               IN /\ ps' = p
                  /\ loads' = set_load_shedding(p, loads, p.load_shedding_allowed)
                  /\ UNCHANGED error
    /\ UNCHANGED <<generators, lines, user_config, opt, timeVars, stageVars, auxVars>>

-----------------------------------------------------------------------------
(* Variables and constraints.  A registered variable is [owner, name] (one    *)
(* per time of opt.times); a registered constraint is [owner, name, time,    *)
(* expr], kept in the order of the add_constraint calls.  Generator.create_  *)
(* variables and Generator.create_constraints register on the generator's    *)
(* own names and are not part of these files.                                *)

SystemOwner == <<"system">>
BusOwner(bus) == <<"bus", bus.index>>
LoadOwner(l) == <<"load", l>>
LineOwner(k) == <<"line", k>>

\* make_times_basic(N): the string identifiers of N hourly times
make_times_basic(N) == [i \in 1..N |-> TStr(i - 1)]

\* Load.get_scheduled_ouput(time)
Load_get_scheduled_ouput(lds, l, t) == lds[l].schedule

\* Load.power(time): the variable when shedding is allowed, else the schedule
Load_power(lds, l, t) ==
    IF lds[l].shedding_allowed THEN <<"var", l, t>> ELSE <<"scheduled", l, t>>

Load_create_variables(lds, l) ==
    IF lds[l].shedding_allowed THEN {[owner |-> LoadOwner(l), name |-> "power"]} ELSE {}

Load_create_constraints(lds, l, times) ==
    IF lds[l].shedding_allowed
    THEN [i \in 1..Len(times) |->
            [owner |-> LoadOwner(l), name |-> "max_load_power", time |-> times[i],
             expr |-> [lhs |-> Load_power(lds, l, times[i]), sense |-> "<=",
                       rhs |-> <<"scheduled", l, times[i]>>]]]
    ELSE <<>>

\* a variant that keeps the flow term for a single bus and adds the load
Bus_power_balance_added(bus, t, Bmatrix, allBuses, lds) ==
    [k \in 1..Len(allBuses) |->
        [coef |-> (-1) * Bmatrix[<<bus.index, allBuses[k].index>>],
         var |-> <<"angle", allBuses[k].index, t>>]]
    \o [i \in 1..Len(bus.loads) |-> [coef |-> 1, var |-> <<"scheduled", bus.loads[i], t>>]]
    \o [i \in 1..Len(bus.generators) |->
           [coef |-> 1, var |-> <<"gen power", bus.generators[i], t>>]]

\* Bus.power_balance: sum([-lineFlowsFromBus, -Pload(t), Pgen(t)]), as the
\* list of its terms coef * var; lineFlowsFromBus is the number 0 for one bus
Bus_power_balance(bus, t, Bmatrix, allBuses, lds) ==
    LET lineFlowsFromBus ==
            IF Len(allBuses) = 1 THEN <<>>
            ELSE [k \in 1..Len(allBuses) |->
                    [coef |-> Bmatrix[<<bus.index, allBuses[k].index>>],
                     var |-> <<"angle", allBuses[k].index, t>>]]
        Pload == [i \in 1..Len(bus.loads) |->
                    [coef |-> 1, var |-> Load_power(lds, bus.loads[i], t)]]
        Pgen == [i \in 1..Len(bus.generators) |->
                    [coef |-> 1, var |-> <<"gen power", bus.generators[i], t>>]]
        negated(terms) == [i \in 1..Len(terms) |-> [terms[i] EXCEPT !.coef = (-1) * @]]
    IN negated(lineFlowsFromBus) \o negated(Pload) \o Pgen

Bus_create_variables(bus, lds) ==
    UNION {Load_create_variables(lds, bus.loads[i]) : i \in 1..Len(bus.loads)}
        \cup {[owner |-> BusOwner(bus), name |-> "angle"]}

\* a variant that fixes the swing bus's angle whatever the number of buses
Bus_create_constraints_anyCount(bus, times, Bmatrix, buses, lds) ==
    LET atTime(i) ==
            <<[owner |-> BusOwner(bus), name |-> "power balance", time |-> times[i],
               expr |-> [lhs |-> Bus_power_balance(bus, times[i], Bmatrix, buses, lds),
                         sense |-> "==", rhs |-> 0]]>>
            \o (IF bus.isSwing
                THEN <<[owner |-> BusOwner(bus), name |-> "swing bus", time |-> times[i],
                        expr |-> [lhs |-> <<"angle", bus.index, times[i]>>,
                                  sense |-> "==", rhs |-> 0]]>>
                ELSE <<>>)
    IN flatten([i \in 1..Len(bus.loads) |-> Load_create_constraints(lds, bus.loads[i], times)])
       \o flatten([i \in 1..Len(times) |-> atTime(i)])

Bus_create_constraints(bus, times, Bmatrix, buses, lds) ==
    LET nBus == Len(buses)
        atTime(i) ==
            <<[owner |-> BusOwner(bus), name |-> "power balance", time |-> times[i],
               expr |-> [lhs |-> Bus_power_balance(bus, times[i], Bmatrix, buses, lds),
                         sense |-> "==", rhs |-> 0]]>>
            \o (IF nBus > 1 /\ bus.isSwing
                THEN <<[owner |-> BusOwner(bus), name |-> "swing bus", time |-> times[i],
                        expr |-> [lhs |-> <<"angle", bus.index, times[i]>>,
                                  sense |-> "==", rhs |-> 0]]>>
                ELSE <<>>)
    IN flatten([i \in 1..Len(bus.loads) |-> Load_create_constraints(lds, bus.loads[i], times)])
       \o flatten([i \in 1..Len(times) |-> atTime(i)])

\* a variant that takes the angle difference from To to From
Line_create_constraints_reversed(lns, k, times, buses) ==
    LET busNames == [i \in 1..Len(buses) |-> buses[i].name]
        iFrom == ListIndex(busNames, lns[k].From)
        iTo == ListIndex(busNames, lns[k].To)
        atTime(i) ==
            <<[owner |-> LineOwner(k), name |-> "line flow", time |-> times[i],
               expr |-> [lhs |-> <<"power", k, times[i]>>, sense |-> "==",
                         rhs |-> [invX |-> OneOverX(lns[k]), plus |-> iTo, minus |-> iFrom]]],
              [owner |-> LineOwner(k), name |-> "line limit high", time |-> times[i],
               expr |-> [lhs |-> <<"power", k, times[i]>>, sense |-> "<=",
                         rhs |-> lns[k].Pmax]],
              [owner |-> LineOwner(k), name |-> "line limit low", time |-> times[i],
               expr |-> [lhs |-> lns[k].Pmin, sense |-> "<=",
                         rhs |-> <<"power", k, times[i]>>]]>>
    IN flatten([i \in 1..Len(times) |-> atTime(i)])

\* Line.create_constraints: the flow law and the two limits, per time
Line_create_constraints(lns, k, times, buses) ==
    LET busNames == [i \in 1..Len(buses) |-> buses[i].name]
        iFrom == ListIndex(busNames, lns[k].From)
        iTo == ListIndex(busNames, lns[k].To)
        atTime(i) ==
            <<[owner |-> LineOwner(k), name |-> "line flow", time |-> times[i],
               expr |-> [lhs |-> <<"power", k, times[i]>>, sense |-> "==",
                         rhs |-> [invX |-> OneOverX(lns[k]), plus |-> iFrom, minus |-> iTo]]],
              [owner |-> LineOwner(k), name |-> "line limit high", time |-> times[i],
               expr |-> [lhs |-> <<"power", k, times[i]>>, sense |-> "<=",
                         rhs |-> lns[k].Pmax]],
              [owner |-> LineOwner(k), name |-> "line limit low", time |-> times[i],
               expr |-> [lhs |-> lns[k].Pmin, sense |-> "<=",
                         rhs |-> <<"power", k, times[i]>>]]>>
    IN flatten([i \in 1..Len(times) |-> atTime(i)])

PowerSystem_create_variables(p, lds) ==
    {[owner |-> SystemOwner, name |-> "cost_first_stage"],
     [owner |-> SystemOwner, name |-> "cost_second_stage"]}
    \cup UNION {Bus_create_variables(p.buses[i], lds) : i \in 1..Len(p.buses)}
    \cup {[owner |-> LineOwner(k), name |-> "power"] : k \in 1..Len(p.lines)}

\* a variant whose reserve requirement leaves out the load itself
PowerSystem_create_constraints_noMargin(p, lds, times) ==
    LET reserve(i) ==
            [owner |-> SystemOwner, name |-> "reserve", time |-> times[i],
             expr |-> [lhs |-> [available |-> ps_generators(p)], sense |-> ">=",
                       rhs |-> [fixed |-> p.reserve_fixed,
                                factor |-> p.reserve_load_fraction,
                                loads |-> [j \in 1..Len(ps_loads(p)) |->
                                             Load_power(lds, ps_loads(p)[j], times[i])]]]]
        cost(stage) ==
            [owner |-> SystemOwner, name |-> stage, time |-> NoneVal,
             expr |-> [lhs |-> <<"var", stage>>, sense |-> "==",
                       rhs |-> [i \in 1..Len(p.buses) |-> BusOwner(p.buses[i])]]]
    IN flatten([i \in 1..Len(p.buses) |->
                  Bus_create_constraints(p.buses[i], times, p.Bmatrix, p.buses, lds)])
       \o flatten([k \in 1..Len(p.lines) |-> Line_create_constraints(p.lines, k, times, p.buses)])
       \o (IF (~p.load_shedding_allowed)
              /\ (p.reserve_fixed > 0 \/ p.reserve_load_fraction > 0)
           THEN [i \in 1..Len(times) |-> reserve(i)]
           ELSE <<>>)
       \o <<cost("system_cost_first_stage"), cost("system_cost_second_stage")>>

\* PowerSystem.create_constraints: the reserve requirement is
\* reserve_fixed + (1.0 + reserve_load_fraction) * load, its factor in tenths
PowerSystem_create_constraints(p, lds, times) ==
    LET reserve(i) ==
            [owner |-> SystemOwner, name |-> "reserve", time |-> times[i],
             expr |-> [lhs |-> [available |-> ps_generators(p)], sense |-> ">=",
                       rhs |-> [fixed |-> p.reserve_fixed,
                                factor |-> 10 + p.reserve_load_fraction,
                                loads |-> [j \in 1..Len(ps_loads(p)) |->
                                             Load_power(lds, ps_loads(p)[j], times[i])]]]]
        cost(stage) ==
            [owner |-> SystemOwner, name |-> stage, time |-> NoneVal,
             expr |-> [lhs |-> <<"var", stage>>, sense |-> "==",
                       rhs |-> [i \in 1..Len(p.buses) |-> BusOwner(p.buses[i])]]]
    IN flatten([i \in 1..Len(p.buses) |->
                  Bus_create_constraints(p.buses[i], times, p.Bmatrix, p.buses, lds)])
       \o flatten([k \in 1..Len(p.lines) |-> Line_create_constraints(p.lines, k, times, p.buses)])
       \o (IF (~p.load_shedding_allowed)
              /\ (p.reserve_fixed > 0 \/ p.reserve_load_fraction > 0)
           THEN [i \in 1..Len(times) |-> reserve(i)]
           ELSE <<>>)
       \o <<cost("system_cost_first_stage"), cost("system_cost_second_stage")>>

\* PowerSystem.create_variables(times), for the times of make_times_basic(N)
create_variables ==
    /\ ps.state = "constructed"
    /\ opt.stage = "empty"
    /\ \E N \in 1..MaxT :
          opt' = [stage |-> "variables",
                  times |-> make_times_basic(N),
                  variables |-> PowerSystem_create_variables(ps, loads),
                  constraints |-> <<>>]
    /\ UNCHANGED <<generators, loads, lines, user_config, ps, error, timeVars, stageVars, auxVars>>

\* PowerSystem.create_constraints(times)
create_constraints ==
    /\ ps.state = "constructed"
    /\ opt.stage = "variables"
    /\ opt' = [opt EXCEPT !.stage = "constraints",
                          !.constraints = PowerSystem_create_constraints(ps, loads, opt.times)]
    /\ UNCHANGED <<generators, loads, lines, user_config, ps, error, timeVars, stageVars, auxVars>>

-----------------------------------------------------------------------------
(* schedule.TimeIndex.  A timestamp is a number of hours; an index made by   *)
(* date_range carries its frequency, a whole number of hours.                *)

\* the attributes a TimeIndex object answers to: those set by __init__ and the
\* methods of the class
TimeIndexAttributes ==
    {"times", "strings", "_set", "interval", "intervalhrs", "Start", "startdate", "End",
     "span", "spanhrs", "initialTime", "_subdivided", "_int_overlap", "_index_based",
     "_start_index", "set_initial", "get_interval", "last", "non_overlap", "subdivide"}

\* date_range(start, periods = N, freq = freq hours)
date_range(start, N, freq) == [values |-> [i \in 1..N |-> start + (i - 1) * freq], freq |-> freq]

\* index[start:end_point], Python slice bounds
Slice(s, start, end_point) == SubSeq(s, start + 1, end_point)

\* get_interval: intervalhrs is set from the frequency only when it is 'H'
get_interval(index) ==
    [interval |-> index.freq,
     intervalhrs |-> IF index.freq = 1 THEN Some(1) ELSE None]

\* set_initial(): the marker one interval before Start
set_initial(Start, interval) == [time |-> Start - interval, index |-> "Init"]

\* TimeIndex.__init__
TimeIndex(index) ==
    LET n == Len(index.values)
        strings == [i \in 1..n |-> TStr(i - 1)]
        iv == get_interval(index)
        Start == index.values[1]
        End == index.values[n] + iv.interval
    IN [times |-> index,
        strings |-> strings,
        _set |-> strings,
        interval |-> iv.interval,
        intervalhrs |-> iv.intervalhrs,
        Start |-> Start,
        End |-> End,
        span |-> End - Start,
        initialTime |-> set_initial(Start, iv.interval),
        _subdivided |-> FALSE,
        _int_overlap |-> 0,
        _index_based |-> TRUE,
        _start_index |-> 0]

make_times_hourly(N) == TimeIndex(date_range(0, N, 1))
just_one_time == make_times_hourly(1)

\* a Python str seen as an object: its attribute index is the method str.index
PyStr(string) == [str |-> string, index |-> "method str.index"]

\* is_init(time): getattr(time, 'index', None) == 'Init'
is_init(time) == "index" \in DOMAIN time /\ time.index = "Init"

\* a variant that numbers the steps of every index from t00
TimeIndex_getitem_renumbered(ti, i, circular) ==
    IF i = -1 /\ ~circular THEN ti.initialTime
    ELSE IF i = -1 THEN TStr(Len(ti.strings) - 1)
    ELSE TStr(i)

\* __getitem__(i, circular) for -1 <= i < len
TimeIndex_getitem(ti, i, circular) ==
    IF i = -1 /\ ~circular THEN ti.initialTime
    ELSE IF i = -1 THEN ti.strings[Len(ti.strings)]
    ELSE ti.strings[i + 1]

TimeIndex_last(ti) == TimeIndex_getitem(ti, -1, TRUE)

\* non_overlap: the name int_overlap is not defined in the method
non_overlap(ti) ==
    IF ti._subdivided /\ ti._int_overlap > 0
    THEN [raised |-> "NameError"]
    ELSE [raised |-> "none", value |-> ti]

\* the loop of subdivide over range(int(len(self) / int_division))
SubdivideStage(ti, stg, int_division, int_overlap) ==
    LET start == stg * int_division
        len == Len(ti.times.values)
        end_point == IF start + int_division + int_overlap < len
                     THEN start + int_division + int_overlap ELSE len
        subset == TimeIndex([values |-> Slice(ti.times.values, start, end_point),
                             freq |-> ti.times.freq])
    IN [subset EXCEPT !.strings = Slice(ti.strings, start, end_point),
                      !._set = Slice(ti.strings, start, end_point),
                      !._int_overlap = int_overlap]

\* subdivide(division_hrs, overlap_hrs); dividing by an intervalhrs of None is
\* a TypeError, and by an int_division of 0 a ZeroDivisionError
TimeIndex_subdivide(ti, division_hrs, overlap_hrs) ==
    IF ti.intervalhrs = None THEN [raised |-> "TypeError"]
    ELSE LET int_division == division_hrs \div ti.intervalhrs[1]
             int_overlap == overlap_hrs \div ti.intervalhrs[1]
         IN IF int_division = 0 THEN [raised |-> "ZeroDivisionError"]
            ELSE [raised |-> "none",
                  value |-> [k \in 1..(Len(ti.times.values) \div int_division) |->
                               SubdivideStage(ti, k - 1, int_division, int_overlap)]]

NotSubdivided == [made |-> FALSE]
NoSolution == [solved |-> FALSE]
NoStatus == [finalstatus |-> None, initial |-> None]

\* times.subdivide(division_hrs, overlap_hrs), as the rolling solve calls it
subdivide ==
    /\ stage_times = NotSubdivided
    /\ error = "none"
    /\ \E division_hrs \in 1..MaxDivision, overlap_hrs \in 0..MaxOverlap :
          LET r == TimeIndex_subdivide(horizon, division_hrs, overlap_hrs)
          IN IF r.raised # "none"
             THEN error' = r.raised /\ UNCHANGED stage_times
             ELSE /\ stage_times' = [made |-> TRUE, windows |-> r.value,
                                      division_hrs |-> division_hrs,
                                      overlap_hrs |-> overlap_hrs]
                  /\ UNCHANGED error
    /\ UNCHANGED <<sysVars, horizon, stageVars, auxVars>>

-----------------------------------------------------------------------------
(* Stage handoff: PowerSystem.get_finalconditions / set_initialconditions.   *)
(* Generator.getstatus, gethrsinstatus and set_initial_condition belong to   *)
(* the generators module: a status is (P, u, hoursinstatus), and the initial *)
(* condition of a generator is a status at a time.                            *)

StatusValues == {[u |-> FALSE, P |-> 0], [u |-> TRUE, P |-> 1]}

\* position of string identifier t in the index (strings are the Series' keys)
PosOf(ti, t) == CHOOSE i \in DOMAIN ti.strings : ti.strings[i] = t

\* Generator.gethrsinstatus(times, stat): hours the final status has lasted
RECURSIVE SameStatusRun(_, _)
SameStatusRun(stat, n) ==
    IF n <= 1 THEN n
    ELSE IF stat[n - 1].u = stat[n].u THEN 1 + SameStatusRun(stat, n - 1) ELSE 1

gethrsinstatus(ti, stat) == SameStatusRun(stat, Len(ti.strings)) * ti.interval

\* Generator.getstatus(t, times, stat)
getstatus(t, ti, stat) ==
    [P |-> stat[PosOf(ti, t)].P, u |-> stat[PosOf(ti, t)].u,
     hoursinstatus |-> gethrsinstatus(ti, stat)]

\* the assignments of get_finalconditions after tEnd and tEndstr are known
FinalStatus(solution, g, tEnd, tEndstr, nonOverlap) ==
    IF solution.is_stochastic
    THEN [P |-> solution.observed_generator_power[g][PosOf(solution.times, tEnd)].P,
          u |-> solution.stage_generators_status[g][PosOf(solution.times, tEnd)].u,
          hoursinstatus |-> gethrsinstatus(nonOverlap, solution.stage_generators_status[g])]
    ELSE getstatus(tEndstr, nonOverlap, solution.generators_status[g])

\* get_finalconditions(sln): the lookup of times.last_non_overlap comes first
PowerSystem_get_finalconditions(p, solution, status) ==
    IF "last_non_overlap" \notin TimeIndexAttributes
    THEN [raised |-> "AttributeError", status |-> status]
    ELSE LET no == non_overlap(solution.times) IN
         IF no.raised # "none" THEN [raised |-> no.raised, status |-> status]
         ELSE LET tEndstr == TimeIndex_last(no.value)
              IN [raised |-> "none",
                  status |-> [g \in DOMAIN status |->
                      IF g \in Range(ps_generators(p))
                      THEN [status[g] EXCEPT !.finalstatus =
                               Some(FinalStatus(solution, g, tEndstr, tEndstr, no.value))]
                      ELSE status[g]]]

\* set_initialconditions(initTime, stage_number, stage_solutions)
PowerSystem_set_initialconditions(p, initTime, stage_number, status) ==
    IF stage_number = 0 THEN status
    ELSE [g \in DOMAIN status |->
            IF g \in Range(ps_generators(p)) /\ status[g].finalstatus # None
            THEN [finalstatus |-> None,
                  initial |-> Some([time |-> initTime, status |-> status[g].finalstatus[1]])]
            ELSE status[g]]

\* the rolling solve: for each sub-window in order, set_initialconditions,
\* solve, get_finalconditions
set_initialconditions ==
    /\ ps.state = "constructed"
    /\ stage_times.made
    /\ error = "none"
    /\ run.pc = "idle"
    /\ run.stage < Len(stage_times.windows)
    /\ gen_status' = PowerSystem_set_initialconditions(
                         ps, stage_times.windows[run.stage + 1].initialTime, run.stage, gen_status)
    /\ run' = [run EXCEPT !.pc = "solve"]
    /\ UNCHANGED <<sysVars, error, timeVars, sln, auxVars>>

\* the solver's answer for the stage: a status for every generator and time
solve ==
    /\ run.pc = "solve"
    /\ LET window == stage_times.windows[run.stage + 1]
           Answers == [1..Len(generators) -> [1..Len(window.strings) -> StatusValues]]
       IN \E stat \in Answers, stochastic \in BOOLEAN :
             sln' = [solved |-> TRUE, times |-> window, is_stochastic |-> stochastic,
                     generators_status |-> stat,
                     stage_generators_status |-> stat,
                     observed_generator_power |-> stat]
    /\ run' = [run EXCEPT !.pc = "get_final"]
    /\ UNCHANGED <<sysVars, error, timeVars, gen_status, auxVars>>

get_finalconditions ==
    /\ run.pc = "get_final"
    /\ LET r == PowerSystem_get_finalconditions(ps, sln, gen_status)
       IN /\ gen_status' = r.status
          /\ error' = r.raised
          /\ run' = IF r.raised # "none" THEN [run EXCEPT !.pc = "raised"]
                    ELSE [pc |-> "idle", stage |-> run.stage + 1]
    /\ UNCHANGED <<sysVars, timeVars, sln, auxVars>>

-----------------------------------------------------------------------------
(* Scenario set-up (get_data.setup_scenarios) and the look-ups of the         *)
(* generator that carries scenarios or observed values.                       *)

NoCalls == [setup |-> "not called", lookup |-> "not called", found |-> None]
NoResolve == [called |-> "none", outcome |-> "none", solved |-> FALSE,
              power |-> "forecast", fixed |-> FALSE, loaded |-> FALSE]

\* filter(lambda gen: getattr(gen, 'has_scenarios', False), self.generators())
gens_with_scenarios(p, gens) ==
    LET carries(g) == gens[g].has_scenarios IN SelectSeq(ps_generators(p), carries)

\* get_generator_with_scenarios: [] (None here) when no generator has scenarios
PowerSystem_get_generator_with_scenarios(p, gens) ==
    LET found == gens_with_scenarios(p, gens)
    IN IF Len(found) > 1 THEN [raised |-> "NotImplementedError", value |-> None]
       ELSE IF Len(found) = 0 THEN [raised |-> "none", value |-> None]
       ELSE [raised |-> "none", value |-> Some(found[1])]

\* get_generator_with_observed: filter(...)[0]
PowerSystem_get_generator_with_observed(p, gens) ==
    LET observed(g) == gens[g].observed_values
        found == SelectSeq(ps_generators(p), observed)
    IN IF Len(found) = 0 THEN [raised |-> "IndexError", value |-> None]
       ELSE [raised |-> "none", value |-> Some(found[1])]

\* the positions (gen.index + 1) of the generators with a scenarios file or
\* directory
has_scenarios_list(gens) ==
    LET named(g) == gens[g].scenarios_filename # None \/ gens[g].scenarios_directory # None
    IN SelectSeq([g \in 1..Len(gens) |-> g], named)

\* a variant that marks the first generator before it counts them
get_data_setup_scenarios_marking(gens, config) ==
    LET has_scenarios == has_scenarios_list(gens) IN
    IF config.deterministic_solve \/ Len(has_scenarios) = 0
    THEN [raised |-> "none", gens |-> gens]
    ELSE [raised |-> IF Len(has_scenarios) > 1 THEN "NotImplementedError" ELSE "none",
          gens |-> [gens EXCEPT ![has_scenarios[1]].has_scenarios = TRUE]]

\* setup_scenarios(generators, times): the outcome and the generators after it
get_data_setup_scenarios(gens, config) ==
    LET has_scenarios == has_scenarios_list(gens) IN
    IF config.deterministic_solve THEN [raised |-> "none", gens |-> gens]
    ELSE IF Len(has_scenarios) = 0 THEN [raised |-> "none", gens |-> gens]
    ELSE IF Len(has_scenarios) > 1 THEN [raised |-> "NotImplementedError", gens |-> gens]
    ELSE LET g == has_scenarios[1]
             multistage == gens[g].scenarios_filename = None
         IN [raised |-> "none",
             gens |-> [gens EXCEPT ![g] =
                         [@ EXCEPT !.has_scenarios = TRUE,
                                   !.has_scenarios_multistage = Some(multistage),
                                   !.observed_values = @ \/ multistage]]]

setup_scenarios ==
    /\ scen.setup = "not called"
    /\ error = "none"
    /\ LET r == get_data_setup_scenarios(generators, user_config)
       IN /\ generators' = r.gens
          /\ error' = r.raised
          /\ scen' = [scen EXCEPT !.setup = IF r.raised = "none" THEN "returned" ELSE "raised"]
    /\ UNCHANGED <<loads, lines, user_config, ps, opt, timeVars, stageVars, resolve>>

get_generator_with_scenarios ==
    /\ ps.state = "constructed"
    /\ scen.lookup = "not called"
    /\ error = "none"
    /\ LET r == PowerSystem_get_generator_with_scenarios(ps, generators)
       IN /\ error' = r.raised
          /\ scen' = [scen EXCEPT !.lookup = IF r.raised = "none" THEN "returned" ELSE "raised",
                                  !.found = r.value]
    /\ UNCHANGED <<sysVars, timeVars, stageVars, resolve>>

-----------------------------------------------------------------------------
(* PowerSystem.resolve_stochastic_with_observed and                           *)
(* resolve_determinisitc_with_observed.  _solve_instance is the solver: it    *)
(* sets self.solved; Solution._get_outputs and _get_costs store the costs of  *)
(* the loaded results on the solution.                                        *)

CostValues == {1, 2}

SolutionCosts ==
    [solved : {TRUE}, fuelcost : CostValues, totalcost_generation : CostValues,
     load_shed : {0, 1}, generators_power : CostValues,
     expected_fuelcost : {None}, expected_totalcost : {None}, expected_load_shed : {None},
     expected_generators_power : {None}, observed_fuelcost : {None},
     observed_totalcost : {None}]

\* what _get_outputs and _get_costs leave on the solution for the new results
StoreResults(solution, results) ==
    [solution EXCEPT !.fuelcost = results.fuelcost,
                     !.totalcost_generation = results.totalcost_generation,
                     !.load_shed = results.load_shed,
                     !.generators_power = results.generators_power]

Results == [fuelcost : CostValues, totalcost_generation : CostValues,
            load_shed : {0}, generators_power : CostValues]

\* resolve_stochastic_with_observed, after the generator has been found and the
\* fixed instance solved with outcome solved and results
PowerSystem_resolve_stochastic(solution, solved, results) ==
    IF ~solved THEN [raised |-> "OptimizationResolveError", sln |-> solution, loaded |-> FALSE]
    ELSE [raised |-> "none",
          sln |-> StoreResults(
                      [solution EXCEPT !.expected_fuelcost = Some(solution.fuelcost),
                                       !.expected_totalcost = Some(solution.totalcost_generation),
                                       !.expected_load_shed = Some(solution.load_shed)],
                      results),
          loaded |-> TRUE]

\* a variant that logs the unsolved re-solve and carries on
PowerSystem_resolve_deterministic_lenient(solution, solved, results) ==
    [raised |-> "none",
     sln |-> [solution EXCEPT !.expected_fuelcost = Some(solution.fuelcost),
                              !.observed_fuelcost = Some(results.fuelcost)],
     loaded |-> TRUE]

PowerSystem_resolve_deterministic(solution, solved, results) ==
    IF ~solved THEN [raised |-> "OptimizationResolveError", sln |-> solution, loaded |-> FALSE]
    ELSE LET stored == StoreResults(
                 [solution EXCEPT
                     !.expected_generators_power = Some(solution.generators_power),
                     !.expected_fuelcost = Some(solution.fuelcost),
                     !.expected_totalcost = Some(solution.totalcost_generation),
                     !.expected_load_shed = Some(solution.load_shed)],
                 results)
         IN [raised |-> "none",
             sln |-> [stored EXCEPT !.observed_fuelcost = Some(stored.fuelcost),
                                    !.observed_totalcost = Some(stored.totalcost_generation)],
             loaded |-> TRUE]

resolve_stochastic_with_observed ==
    /\ ps.state = "constructed"
    /\ resolve.called = "none"
    /\ error = "none"
    /\ LET gen == PowerSystem_get_generator_with_scenarios(ps, generators) IN
       IF gen.raised # "none" \/ gen.value = None
       THEN \* no single generator: the error of the look-up, or of 'power_[]'
            /\ error' = IF gen.raised # "none" THEN gen.raised ELSE "KeyError"
            /\ resolve' = [resolve EXCEPT !.called = "stochastic", !.outcome = "raised"]
            /\ UNCHANGED sln
       ELSE IF ~generators[gen.value[1]].observed_values
       THEN \* gen.observed_values[time] on a generator without observed values
            /\ error' = "AttributeError"
            /\ resolve' = [resolve EXCEPT !.called = "stochastic", !.outcome = "raised"]
            /\ UNCHANGED sln
       ELSE \E solved \in BOOLEAN, results \in Results :
               LET r == PowerSystem_resolve_stochastic(sln, solved, results)
               IN /\ sln' = r.sln
                  /\ error' = r.raised
                  /\ resolve' = [called |-> "stochastic",
                                 outcome |-> IF r.raised = "none" THEN "returned" ELSE "raised",
                                 solved |-> solved, power |-> "observed", fixed |-> TRUE,
                                 loaded |-> r.loaded]
    /\ UNCHANGED <<sysVars, timeVars, run, gen_status, scen>>

resolve_determinisitc_with_observed ==
    /\ ps.state = "constructed"
    /\ resolve.called = "none"
    /\ error = "none"
    /\ LET gen == PowerSystem_get_generator_with_observed(ps, generators) IN
       IF gen.raised # "none"
       THEN /\ error' = gen.raised
            /\ resolve' = [resolve EXCEPT !.called = "deterministic", !.outcome = "raised"]
            /\ UNCHANGED sln
       ELSE \E solved \in BOOLEAN, results \in Results :
               LET r == PowerSystem_resolve_deterministic(sln, solved, results)
               IN /\ sln' = r.sln
                  /\ error' = r.raised
                  /\ resolve' = [called |-> "deterministic",
                                 outcome |-> IF r.raised = "none" THEN "returned" ELSE "raised",
                                 solved |-> solved, power |-> "observed", fixed |-> TRUE,
                                 loaded |-> r.loaded]
    /\ UNCHANGED <<sysVars, timeVars, run, gen_status, scen>>

-----------------------------------------------------------------------------

InitInputs ==
    /\ ps = NoSystem
    /\ opt = EmptyOpt
    /\ error = "none"

InitNoCalls ==
    /\ resolve = NoResolve
    /\ scen = NoCalls

\* no rolling run: a single hourly time, not subdivided
InitNoStages ==
    /\ horizon = just_one_time
    /\ stage_times = NotSubdivided
    /\ run = [pc |-> "idle", stage |-> 0]
    /\ sln = NoSolution
    /\ gen_status = [g \in 1..Len(generators) |-> NoStatus]
    /\ InitNoCalls

\* economic dispatch / unit commitment input: no lines
InitDispatch ==
    /\ InitInputs
    /\ generators \in SeqsUpTo({Generator(b) : b \in BusVals}, MaxGens)
    /\ loads \in SeqsUpTo({Load(b) : b \in BusVals}, MaxLoads)
    /\ lines = <<>>
    /\ user_config \in {[DefaultConfig EXCEPT !.load_shedding_allowed = b] : b \in BOOLEAN}
    /\ InitNoStages

\* optimal power flow input: a small set of fleets, every list of lines
NetworkFleets ==
    {<<<<>>, <<>>>>,
     <<<<Generator(NoneVal)>>, <<Load(NoneVal)>>>>,
     <<<<Generator("A")>>, <<Load("B")>>>>,
     <<<<Generator("A"), Generator("B")>>, <<Load("B"), Load("C")>>>>,
     <<<<Generator("B")>>, <<Load("A"), Load("A")>>>>}

LineInputs ==
    {Line(f, t, X, Pmax, None) : f \in BusNames, t \in BusNames, X \in XValues, Pmax \in PmaxValues}

InitNetwork ==
    /\ InitInputs
    /\ \E fleet \in NetworkFleets : generators = fleet[1] /\ loads = fleet[2]
    /\ lines \in SeqsUpTo(LineInputs, MaxLines)
    /\ user_config \in {[DefaultConfig EXCEPT !.load_shedding_allowed = b] : b \in BOOLEAN}
    /\ InitNoStages

Next ==
    \/ PowerSystem_init
    \/ create_variables
    \/ create_constraints

Spec == InitDispatch /\ [][Next]_vars

SpecNetwork == InitNetwork /\ [][Next]_vars

\* two buses and lines between them, the reactance a float (0.1, 0.2) or a
\* Python int (1, 2), Pmin given or left out
LineInputsAnyX ==
    {Line(ft[1], ft[2], X, Pmax, Pmin) :
        ft \in {<<"A", "B">>, <<"B", "A">>}, X \in XValues, Pmax \in PmaxValues,
        Pmin \in {None, Some(-20)}}
    \cup {Line_intX(ft[1], ft[2], n, Pmax, Pmin) :
             ft \in {<<"A", "B">>, <<"B", "A">>}, n \in {1, 2}, Pmax \in PmaxValues,
             Pmin \in {None, Some(-20)}}

InitLines ==
    /\ InitInputs
    /\ generators = <<Generator("A")>>
    /\ loads = <<Load("B")>>
    /\ lines \in (SeqsUpTo(LineInputsAnyX, MaxLines) \ {<<>>})
    /\ user_config = DefaultConfig
    /\ InitNoStages

SpecLines == InitLines /\ [][Next]_vars

\* systems with a reserve requirement: reserve_fixed in MW,
\* reserve_load_fraction in tenths
ReserveGenerators == {[Generator("A") EXCEPT !.Pmax = P] : P \in {45, 50}}
ReserveLoads == {[Load(b) EXCEPT !.schedule = P] : b \in {"A", "B"}, P \in {40, 60}}

InitReserve ==
    /\ InitInputs
    /\ generators \in (SeqsUpTo(ReserveGenerators, MaxGens) \ {<<>>})
    /\ loads \in (SeqsUpTo(ReserveLoads, MaxLoads) \ {<<>>})
    /\ lines = <<>>
    /\ user_config \in {[DefaultConfig EXCEPT !.load_shedding_allowed = b,
                                             !.reserve_fixed = f,
                                             !.reserve_load_fraction = r] :
                            b \in BOOLEAN, f \in {0, 10}, r \in {0, 1}}
    /\ InitNoStages

SpecReserve == InitReserve /\ [][Next]_vars

\* a rolling unit commitment: one or two generators on the single bus, a
\* horizon of up to MaxSteps times every 1 or 2 hours, initial conditions set
\* at the horizon's initial time (get_data.setup_initialcond)
StageFleets == {<<Generator(NoneVal)>>, <<Generator(NoneVal), Generator(NoneVal)>>}

InitStages ==
    /\ InitInputs
    /\ generators \in StageFleets
    /\ loads = <<Load(NoneVal)>>
    /\ lines = <<>>
    /\ user_config = DefaultConfig
    /\ \E N \in 1..MaxSteps, freq \in {1, 2} : horizon = TimeIndex(date_range(0, N, freq))
    /\ stage_times = NotSubdivided
    /\ run = [pc |-> "idle", stage |-> 0]
    /\ sln = NoSolution
    /\ gen_status = [g \in 1..Len(generators) |->
                        [finalstatus |-> None,
                         initial |-> Some([time |-> horizon.initialTime,
                                           status |-> [P |-> 0, u |-> FALSE, hoursinstatus |-> 0]])]]
    /\ InitNoCalls

NextStages ==
    \/ PowerSystem_init
    \/ subdivide
    \/ set_initialconditions
    \/ solve
    \/ get_finalconditions

SpecStages == InitStages /\ [][NextStages]_vars

\* generators as build_class_list leaves them, with or without a scenarios
\* file or directory; has_scenarios is an attribute other modules may have set
ScenarioGenerators ==
    {[Generator(NoneVal) EXCEPT !.scenarios_filename = fd[1], !.scenarios_directory = fd[2],
                                !.has_scenarios = h] :
        fd \in {<<None, None>>, <<Some("scenarios.csv"), None>>, <<None, Some("scenarios")>>},
        h \in BOOLEAN}

InitScenarios ==
    /\ InitInputs
    /\ generators \in SeqsUpTo(ScenarioGenerators, MaxGens)
    /\ loads = <<Load(NoneVal)>>
    /\ lines = <<>>
    /\ user_config \in {[DefaultConfig EXCEPT !.deterministic_solve = b] : b \in BOOLEAN}
    /\ InitNoStages

NextScenarios ==
    \/ setup_scenarios
    \/ PowerSystem_init
    \/ get_generator_with_scenarios

SpecScenarios == InitScenarios /\ [][NextScenarios]_vars

\* a solved stage with its costs, and one or two generators that may carry
\* scenarios or observed values
ResolveGenerators ==
    {[Generator(NoneVal) EXCEPT !.has_scenarios = h, !.observed_values = o] :
        h \in BOOLEAN, o \in BOOLEAN}

InitResolve ==
    /\ InitInputs
    /\ generators \in (SeqsUpTo(ResolveGenerators, MaxGens) \ {<<>>})
    /\ loads = <<Load(NoneVal)>>
    /\ lines = <<>>
    /\ user_config = DefaultConfig
    /\ horizon = just_one_time
    /\ stage_times = NotSubdivided
    /\ run = [pc |-> "idle", stage |-> 0]
    /\ sln \in SolutionCosts
    /\ gen_status = [g \in 1..Len(generators) |-> NoStatus]
    /\ InitNoCalls

NextResolve ==
    \/ PowerSystem_init
    \/ resolve_stochastic_with_observed
    \/ resolve_determinisitc_with_observed

SpecResolve == InitResolve /\ [][NextResolve]_vars

-----------------------------------------------------------------------------
(* Properties *)

Constructed == ps.state = "constructed"
NB == Len(ps.buses)

\* how many entries of sequence s equal x
Count(s, x) == Cardinality({i \in DOMAIN s : s[i] = x})

\* the values of the bus fields, generators first, in input order
Referenced ==
    [i \in 1..Len(generators) |-> generators[i].bus] \o [i \in 1..Len(loads) |-> loads[i].bus]

FirstSeenAt(x) == CHOOSE i \in DOMAIN Referenced :
                      Referenced[i] = x /\ \A j \in 1..(i - 1) : Referenced[j] # x

\* C1: after create_admittance_matrix, for every list of lines between existing
\* buses (any endpoint pair, parallel lines allowed), B is symmetric and every
\* row of B sums to zero.
C1_SymmetricZeroRowSum ==
    Constructed =>
        /\ \A i, j \in BusIdx(ps.buses) : ps.Bmatrix[<<i, j>>] = ps.Bmatrix[<<j, i>>]
        /\ \A i \in BusIdx(ps.buses) : RowSum(ps.Bmatrix, i, NB) = 0

\* C4: whenever make_buses_list returns two or more buses, exactly one of them
\* is the swing bus, and it is the first bus constructed (index 0).
C4_ExactlyOneSwingFirstBus ==
    (Constructed /\ NB >= 2) =>
        {k \in 1..NB : ps.buses[k].isSwing} = {1}

\* C5: make_buses_list creates one Bus per distinct value of the bus fields of
\* the generators and loads, in first-seen order with indices 0, 1, 2, ...; a
\* generator or load is attached to a bus exactly when the bus's name equals its
\* bus field, and generators() and loads() hold every input object exactly once.
C5_OneBusPerNameAttachedOnce ==
    Constructed =>
        /\ {ps.buses[k].name : k \in 1..NB} = Range(Referenced)
        /\ \A k \in 1..NB : ps.buses[k].index = k - 1
        /\ \A k, m \in 1..NB :
              k < m => FirstSeenAt(ps.buses[k].name) < FirstSeenAt(ps.buses[m].name)
        /\ \A k \in 1..NB :
              /\ \A g \in 1..Len(generators) :
                    Count(ps.buses[k].generators, g)
                        = (IF generators[g].bus = ps.buses[k].name THEN 1 ELSE 0)
              /\ \A l \in 1..Len(loads) :
                    Count(ps.buses[k].loads, l)
                        = (IF loads[l].bus = ps.buses[k].name THEN 1 ELSE 0)
        /\ \A g \in 1..Len(generators) : Count(ps_generators(ps), g) = 1
        /\ \A l \in 1..Len(loads) : Count(ps_loads(ps), l) = 1

C5_Witness ==
    /\ Constructed
    /\ NB = 3
    /\ Len(generators) = 2 /\ Len(loads) = 2
    /\ \E k \in 1..NB : Len(ps.buses[k].generators) + Len(ps.buses[k].loads) = 2

\* C6: when no generator and no load references a bus name, make_buses_list
\* returns exactly one Bus, holding every generator and every load, and that bus
\* is the swing bus.
C6_SingleBusHoldsAllAndIsSwing ==
    (Constructed /\ Range(Referenced) \subseteq {NoneVal}) =>
        /\ NB = 1
        /\ ps.buses[1].generators = [g \in 1..Len(generators) |-> g]
        /\ ps.buses[1].loads = [l \in 1..Len(loads) |-> l]
        /\ ps.buses[1].isSwing

\* some line names a bus that no generator and no load is on
UnknownEndpoint ==
    \E k \in 1..Len(lines) :
        lines[k].From \notin Range(Referenced) \/ lines[k].To \notin Range(Referenced)

\* C7: constructing a PowerSystem with a line whose From or To is not the name
\* of a constructed bus raises an error to the caller, and no PowerSystem is
\* returned: every step taken with such a line ends with the error and without
\* a system, buses, lines, variables or constraints.
C7_UnknownEndpointFails ==
    [][UnknownEndpoint => (error' = "ValueError" /\ ps' = NoSystem /\ opt' = EmptyOpt)]_vars

C7_Witness ==
    /\ error = "ValueError"
    /\ ps = NoSystem
    /\ Len(lines) = 2
    /\ lines[1].From \in Range(Referenced) /\ lines[1].To \in Range(Referenced)
    /\ lines[2].From \in Range(Referenced) /\ lines[2].To \notin Range(Referenced)

Coef(terms, v) ==
    SumSeq([i \in 1..Len(terms) |-> IF terms[i].var = v THEN terms[i].coef ELSE 0])

PowerBalanceAt(k, t) ==
    {i \in DOMAIN opt.constraints :
        /\ opt.constraints[i].owner = BusOwner(ps.buses[k])
        /\ opt.constraints[i].name = "power balance"
        /\ opt.constraints[i].time = t}

LoadTerm(l, t) == IF ps.load_shedding_allowed THEN <<"var", l, t>> ELSE <<"scheduled", l, t>>

\* C10: Bus.create_constraints adds, for every bus and every time, exactly one
\* power-balance constraint generation(t) - load(t) - flow(t) == 0, where flow(t)
\* is the sum over all buses j of B[i][j] * angle_j(t) with two or more buses and
\* is identically 0 with one bus.
C10_OnePowerBalancePerBusAndTime ==
    opt.stage = "constraints" =>
        \A k \in 1..NB : \A t \in Range(opt.times) :
            /\ Cardinality(PowerBalanceAt(k, t)) = 1
            /\ \A i \in PowerBalanceAt(k, t) :
                  LET e == opt.constraints[i].expr IN
                  /\ e.sense = "==" /\ e.rhs = 0
                  /\ \A g \in 1..Len(generators) :
                        Coef(e.lhs, <<"gen power", g, t>>)
                            = (IF generators[g].bus = ps.buses[k].name THEN 1 ELSE 0)
                  /\ \A l \in 1..Len(loads) :
                        Coef(e.lhs, LoadTerm(l, t))
                            = (IF loads[l].bus = ps.buses[k].name THEN -1 ELSE 0)
                  /\ \A j \in BusIdx(ps.buses) :
                        Coef(e.lhs, <<"angle", j, t>>)
                            = (IF NB >= 2 THEN (-1) * ps.Bmatrix[<<k - 1, j>>] ELSE 0)
                  /\ NB = 1 => \A n \in 1..Len(e.lhs) : e.lhs[n].var[1] # "angle"
                  /\ \A n \in 1..Len(e.lhs) :
                        e.lhs[n].var \in
                            {<<"gen power", g, t>> : g \in 1..Len(generators)}
                            \cup {LoadTerm(l, t) : l \in 1..Len(loads)}
                            \cup {<<"angle", j, t>> : j \in BusIdx(ps.buses)}

C10_Witness ==
    /\ opt.stage = "constraints"
    /\ NB = 3
    /\ Len(lines) = 2
    /\ Len(opt.times) = 2
    /\ \E i, j \in BusIdx(ps.buses) : i # j /\ ps.Bmatrix[<<i, j>>] # 0

\* C2: concatenating non_overlap() of the sub-windows returned by subdivide, in
\* order, gives exactly the original sequence of string identifiers.
C2_NonOverlapRoundTrip ==
    stage_times.made =>
        /\ \A k \in 1..Len(stage_times.windows) :
              non_overlap(stage_times.windows[k]).raised = "none"
        /\ flatten([k \in 1..Len(stage_times.windows) |->
                      non_overlap(stage_times.windows[k]).value.strings])
               = horizon.strings

\* get_finalconditions has been called on the solution of a stage
StageEnded == sln.solved /\ run.pc \in {"idle", "raised"}

\* C3: in a run of the stages in order, get_finalconditions(k - 1) leaves on
\* every generator the finalstatus of the stage it ends, and once
\* set_initialconditions(k) has returned for k > 0 every generator's initial
\* condition is, at stage k's initial-time marker, the status it had at that
\* instant in the solution of stage k - 1, and no finalstatus is pending.
C3_HandoffFromPreviousStage ==
    /\ StageEnded =>
          \A g \in 1..Len(generators) : gen_status[g].finalstatus # None
    /\ (run.pc = "solve" /\ run.stage > 0) =>
          \A g \in 1..Len(generators) :
              LET init == stage_times.windows[run.stage + 1].initialTime
                  pos == CHOOSE i \in DOMAIN sln.times.times.values :
                             sln.times.times.values[i] = init.time
              IN /\ gen_status[g].finalstatus = None
                 /\ gen_status[g].initial # None
                 /\ gen_status[g].initial[1].time = init
                 /\ gen_status[g].initial[1].status.P = sln.generators_status[g][pos].P
                 /\ gen_status[g].initial[1].status.u = sln.generators_status[g][pos].u

C10_WitnessSingleBus ==
    /\ opt.stage = "constraints"
    /\ NB = 1
    /\ Len(generators) = 1 /\ Len(loads) = 1

-----------------------------------------------------------------------------
(* Resolve with observed values                                               *)

\* the expected/observed cost records of a solution
CostRecords(solution) ==
    <<solution.expected_fuelcost, solution.expected_totalcost, solution.expected_load_shed,
      solution.expected_generators_power, solution.observed_fuelcost,
      solution.observed_totalcost>>

\* this step ran the re-solve of the fixed problem
ResolveRan == resolve'.fixed /\ ~resolve.fixed

\* C8: in resolve_stochastic_with_observed and
\* resolve_determinisitc_with_observed, whenever the re-solve of the fixed
\* problem is not solved, OptimizationResolveError is raised, the procedure does
\* not return normally, and the expected/observed cost records of the solution
\* are left as they were.
C8_UnsolvedResolveRaises ==
    [][(ResolveRan /\ ~resolve'.solved) =>
          /\ error' = "OptimizationResolveError"
          /\ resolve'.outcome = "raised"
          /\ CostRecords(sln') = CostRecords(sln)]_vars

C8_Witness ==
    /\ resolve.fixed /\ ~resolve.solved
    /\ resolve.called = "deterministic"
    /\ error = "OptimizationResolveError"
    /\ sln.expected_fuelcost = None

-----------------------------------------------------------------------------
(* Scenario-bearing generators                                                *)

Carriers == {g \in 1..Len(generators) : generators[g].has_scenarios}
Named == {g \in 1..Len(generators) :
             generators[g].scenarios_filename # None \/ generators[g].scenarios_directory # None}

LookupStep == scen'.lookup # scen.lookup
SetupStep == scen'.setup # scen.setup

\* get_generator_with_scenarios returns the one carrier, and raises for more
LookupContract ==
    LookupStep =>
        /\ Cardinality(Carriers) = 1 =>
              (error' = "none" /\ scen'.lookup = "returned"
               /\ scen'.found = Some(CHOOSE g \in Carriers : TRUE))
        /\ Cardinality(Carriers) > 1 =>
              (error' = "NotImplementedError" /\ scen'.lookup = "raised")

SetupRaisesUnmarked ==
    /\ error' = "NotImplementedError"
    /\ scen'.setup = "raised"
    /\ \A g \in 1..Len(generators) : generators'[g].has_scenarios = generators[g].has_scenarios

\* C9 (as stated): get_generator_with_scenarios returns the single generator
\* carrying scenarios and raises NotImplementedError for more than one;
\* setup_scenarios raises NotImplementedError for every call with more than one
\* generator that has a scenarios file or directory, before marking any
\* generator has_scenarios.
C9_SetupRaisesForMany ==
    [][/\ LookupContract
       /\ (SetupStep /\ Cardinality(Named) > 1) => SetupRaisesUnmarked]_vars

\* C9 (amended): get_generator_with_scenarios returns the single generator
\* carrying scenarios when exactly one exists and raises NotImplementedError
\* when more than one does; setup_scenarios, unless user_config.deterministic_solve
\* is set (then it returns None at once), raises NotImplementedError for more
\* than one generator with a scenarios file or directory, before marking any
\* generator has_scenarios.
C9_LookupAndSetupRaiseForMany ==
    [][/\ LookupContract
       /\ (SetupStep /\ Cardinality(Named) > 1 /\ ~user_config.deterministic_solve)
             => SetupRaisesUnmarked]_vars

C9_Witness ==
    /\ scen.setup = "raised"
    /\ error = "NotImplementedError"
    /\ Cardinality(Named) > 1
    /\ Carriers = {}

\* the look-up has raised for two carriers
C9_WitnessLookup ==
    /\ scen.lookup = "raised"
    /\ error = "NotImplementedError"
    /\ Cardinality(Carriers) > 1

-----------------------------------------------------------------------------
(* Swing bus                                                                  *)

SwingAt(k, t) ==
    {i \in DOMAIN opt.constraints :
        /\ opt.constraints[i].owner = BusOwner(ps.buses[k])
        /\ opt.constraints[i].name = "swing bus"
        /\ opt.constraints[i].time = t}

\* C11: a swing-angle constraint angle(t) == 0 is added for a bus at time t if
\* and only if the bus is the swing bus and the bus count is greater than 1; it
\* is then added (once) for every time step, and with one bus none is added.
C11_SwingConstraintIffSwingAndMultiBus ==
    opt.stage = "constraints" =>
        \A k \in 1..NB : \A n \in 1..Len(opt.times) :
            LET t == opt.times[n]
                added == SwingAt(k, t)
            IN /\ Cardinality(added) = (IF ps.buses[k].isSwing /\ NB > 1 THEN 1 ELSE 0)
               /\ \A i \in added :
                     opt.constraints[i].expr =
                         [lhs |-> <<"angle", ps.buses[k].index, t>>, sense |-> "==", rhs |-> 0]

C11_Witness ==
    /\ opt.stage = "constraints"
    /\ NB = 2
    /\ Len(opt.times) = 2
    /\ ps.buses[1].isSwing /\ ~ps.buses[2].isSwing
    /\ \A n \in 1..2 : Cardinality(SwingAt(1, opt.times[n])) = 1

\* one bus, which is the swing bus, and no swing-angle constraint
C11_WitnessSingleBus ==
    /\ opt.stage = "constraints"
    /\ NB = 1 /\ ps.buses[1].isSwing
    /\ \A i \in DOMAIN opt.constraints : opt.constraints[i].name # "swing bus"

-----------------------------------------------------------------------------
(* Reserve                                                                    *)

ReserveAt(t) ==
    {i \in DOMAIN opt.constraints :
        /\ opt.constraints[i].owner = SystemOwner
        /\ opt.constraints[i].name = "reserve"
        /\ opt.constraints[i].time = t}

ReserveRequired ==
    (~user_config.load_shedding_allowed)
        /\ (user_config.reserve_fixed > 0 \/ user_config.reserve_load_fraction > 0)

\* the values of available power open to the generators: each at most its Pmax
PowerLevels == {0, 45, 50}
AvailablePoints ==
    {a \in [1..Len(generators) -> PowerLevels] :
        \A g \in 1..Len(generators) : a[g] <= generators[g].Pmax}

\* the reserve constraint c holds at the available powers a (both sides in
\* tenths of a MW)
ReserveHolds(c, a) ==
    10 * SumSeq([i \in 1..Len(c.expr.lhs.available) |-> a[c.expr.lhs.available[i]]])
        >= 10 * c.expr.rhs.fixed
           + c.expr.rhs.factor
             * SumSeq([i \in 1..Len(c.expr.rhs.loads) |-> loads[c.expr.rhs.loads[i][2]].schedule])

TotalLoad == SumSeq([l \in 1..Len(loads) |-> loads[l].schedule])
TotalCapacity == SumSeq([g \in 1..Len(generators) |-> generators[g].Pmax])

\* C12: PowerSystem.create_constraints adds a reserve constraint for every time
\* step exactly when load shedding is disallowed and reserve_fixed > 0 or
\* reserve_load_fraction > 0; the constraint at time t requires the sum of all
\* generators' available power to be at least reserve_fixed +
\* (1 + reserve_load_fraction) * total load at t, so it has a feasible point
\* exactly when the combined capacity reaches that requirement (none with
\* reserve_fixed = 10, fraction 0.1, total load 100 and capacity 95).
C12_ReserveConstraint ==
    opt.stage = "constraints" =>
        \A n \in 1..Len(opt.times) :
            LET t == opt.times[n]
                added == ReserveAt(t)
            IN /\ Cardinality(added) = (IF ReserveRequired THEN 1 ELSE 0)
               /\ \A i \in added :
                     LET c == opt.constraints[i]
                     IN /\ c.expr.sense = ">="
                        /\ \A g \in 1..Len(generators) : Count(c.expr.lhs.available, g) = 1
                        /\ \A l \in 1..Len(loads) :
                              Count(c.expr.rhs.loads, <<"scheduled", l, t>>) = 1
                        /\ Len(c.expr.rhs.loads) = Len(loads)
                        /\ (\E a \in AvailablePoints : ReserveHolds(c, a))
                              <=> (10 * TotalCapacity >=
                                      10 * user_config.reserve_fixed
                                      + (10 + user_config.reserve_load_fraction) * TotalLoad)

\* the reserve constraint of the example: 95 < 10 + 1.1 * 100
C12_Witness ==
    /\ opt.stage = "constraints"
    /\ user_config.reserve_fixed = 10 /\ user_config.reserve_load_fraction = 1
    /\ TotalLoad = 100 /\ TotalCapacity = 95
    /\ Len(opt.times) = 2
    /\ \A n \in 1..2 :
          /\ Cardinality(ReserveAt(opt.times[n])) = 1
          /\ \A i \in ReserveAt(opt.times[n]) :
                ~ \E a \in AvailablePoints : ReserveHolds(opt.constraints[i], a)

-----------------------------------------------------------------------------
(* Lines                                                                      *)

LineConstraintAt(k, name, t) ==
    {i \in DOMAIN opt.constraints :
        /\ opt.constraints[i].owner = LineOwner(k)
        /\ opt.constraints[i].name = name
        /\ opt.constraints[i].time = t}

\* the index of the bus called name
BusIndexOf(name) == (CHOOSE b \in 1..NB : ps.buses[b].name = name) - 1

\* C13: for every line and every time step Line.create_constraints adds the
\* flow law flow(t) == (angle_from(t) - angle_to(t)) / X on the angles of the
\* buses named From and To (the coefficient times X is 1; X is kept in tenths),
\* together with Pmin <= flow(t) and flow(t) <= Pmax, where Pmin is -Pmax when
\* no Pmin was given.
C13_LineFlowLawAndLimits ==
    /\ \A P \in PmaxValues : Line("A", "B", 1, P, None).Pmin = (-1) * P
    /\ opt.stage = "constraints" =>
          \A k \in 1..Len(lines) : \A n \in 1..Len(opt.times) :
              LET t == opt.times[n]
                  law == LineConstraintAt(k, "line flow", t)
                  high == LineConstraintAt(k, "line limit high", t)
                  low == LineConstraintAt(k, "line limit low", t)
              IN /\ Cardinality(law) = 1 /\ Cardinality(high) = 1 /\ Cardinality(low) = 1
                 /\ \A i \in law :
                       LET e == opt.constraints[i].expr
                       IN /\ e.lhs = <<"power", k, t>> /\ e.sense = "=="
                          /\ e.rhs.plus = BusIndexOf(lines[k].From)
                          /\ e.rhs.minus = BusIndexOf(lines[k].To)
                          /\ e.rhs.invX * lines[k].X = 10
                 /\ \A i \in high :
                       opt.constraints[i].expr =
                           [lhs |-> <<"power", k, t>>, sense |-> "<=", rhs |-> lines[k].Pmax]
                 /\ \A i \in low :
                       opt.constraints[i].expr =
                           [lhs |-> lines[k].Pmin, sense |-> "<=", rhs |-> <<"power", k, t>>]

-----------------------------------------------------------------------------
(* Feasible points of the assembled constraints.  A point gives every bus an *)
(* angle, every generator a power within [0, Pmax], every line a flow and    *)
(* every load its power: the schedule, or any level up to it when it may be  *)
(* shed.  Powers are whole MW, angles whole units, and 1/X is whole.         *)

Angles == -5..5
PowerGrid == {0, 10, 20, 30, 40, 50, 60, 70, 80, 90, 100}
FlowGrid == {(-1) * P : P \in PowerGrid} \cup PowerGrid

Points ==
    [angle : [BusIdx(ps.buses) -> Angles],
     gen : {g \in [1..Len(generators) -> PowerGrid] :
               \A n \in 1..Len(generators) : g[n] <= generators[n].Pmax},
     flow : [1..Len(lines) -> FlowGrid],
     load : {l \in [1..Len(loads) -> PowerGrid] :
                \A n \in 1..Len(loads) :
                    IF loads[n].shedding_allowed THEN l[n] <= loads[n].schedule
                    ELSE l[n] = loads[n].schedule}]

\* the value at point pt of a variable or parameter of a constraint
ValueAt(v, pt) ==
    CASE v[1] = "angle" -> pt.angle[v[2]]
      [] v[1] = "gen power" -> pt.gen[v[2]]
      [] v[1] = "power" -> pt.flow[v[2]]
      [] v[1] = "var" -> pt.load[v[2]]
      [] v[1] = "scheduled" -> loads[v[2]].schedule

\* the registered constraint c holds at point pt; the reserve and cost
\* constraints bind variables that are not part of a point
HoldsAt(c, pt) ==
    CASE c.name = "power balance" ->
            SumSeq([i \in 1..Len(c.expr.lhs) |->
                      c.expr.lhs[i].coef * ValueAt(c.expr.lhs[i].var, pt)]) = 0
      [] c.name = "swing bus" -> ValueAt(c.expr.lhs, pt) = 0
      [] c.name = "line flow" ->
            ValueAt(c.expr.lhs, pt)
                = c.expr.rhs.invX * (pt.angle[c.expr.rhs.plus] - pt.angle[c.expr.rhs.minus])
      [] c.name = "line limit high" -> ValueAt(c.expr.lhs, pt) <= c.expr.rhs
      [] c.name = "line limit low" -> c.expr.lhs <= ValueAt(c.expr.rhs, pt)
      [] c.name = "max_load_power" -> ValueAt(c.expr.lhs, pt) <= ValueAt(c.expr.rhs, pt)
      [] OTHER -> TRUE

FeasiblePoints(t) ==
    {pt \in Points :
        \A i \in DOMAIN opt.constraints :
            opt.constraints[i].time = t => HoldsAt(opt.constraints[i], pt)}

\* two buses A and B, one line A->B with X = 0.1 and Pmax = 50, one generator
\* at A with Pmax = 100, one fixed load of 40 at B
Scenario1 ==
    /\ generators = <<Generator("A")>>
    /\ loads = <<Load("B")>>
    /\ lines = <<Line("A", "B", 1, 50, None)>>
    /\ opt.stage = "constraints"

\* C14: for the system of Scenario1 the assembled constraints admit, at every
\* time, exactly one feasible point: line flow 40, angle of A 0 with A the
\* swing bus, angle of B -4, generation 40.
C14_ScenarioOneFeasiblePoint ==
    Scenario1 =>
        /\ ps.buses[1].name = "A" /\ ps.buses[1].isSwing
        /\ ps.buses[2].name = "B" /\ ~ps.buses[2].isSwing
        /\ \A n \in 1..Len(opt.times) :
              FeasiblePoints(opt.times[n])
                  = {[angle |-> (0 :> 0) @@ (1 :> -4), gen |-> <<40>>, flow |-> <<40>>,
                      load |-> <<40>>]}

C14_Witness ==
    /\ Scenario1
    /\ Len(opt.times) = 2
    /\ Cardinality(FeasiblePoints(opt.times[2])) = 1

-----------------------------------------------------------------------------
(* Indexing a TimeIndex                                                       *)

\* the whole index and, once subdivided, its sub-windows
AllTimeIndexes ==
    {horizon} \cup (IF stage_times.made THEN Range(stage_times.windows) ELSE {})

\* the identifier the whole index gives to timestamp time
IdOf(time) ==
    horizon.strings[CHOOSE p \in DOMAIN horizon.times.values : horizon.times.values[p] = time]

\* C15: for every TimeIndex, sub-windows included, indexing at -1 returns the
\* initial-condition marker, which is the first time minus the interval and is
\* the only value for which is_init is true; indexing at any other valid
\* position i returns the string identifier of step i; last() returns the
\* identifier of the final regular step, never the marker.
C15_IndexingAndLast ==
    \A ti \in AllTimeIndexes :
        LET len == Len(ti.times.values)
            marker == TimeIndex_getitem(ti, -1, FALSE)
        IN /\ marker = [time |-> ti.times.values[1] - ti.interval, index |-> "Init"]
           /\ is_init(marker)
           /\ \A i \in 0..(len - 1) :
                 /\ TimeIndex_getitem(ti, i, FALSE) = IdOf(ti.times.values[i + 1])
                 /\ ~is_init(PyStr(TimeIndex_getitem(ti, i, FALSE)))
           /\ TimeIndex_last(ti) = IdOf(ti.times.values[len])
           /\ ~is_init(PyStr(TimeIndex_last(ti)))

\* a sub-window that starts inside the whole index and has a look-ahead step
C15_Witness ==
    /\ stage_times.made
    /\ Len(stage_times.windows) >= 2
    /\ LET w == stage_times.windows[2]
       IN /\ Len(w.strings) >= 2
          /\ w._int_overlap = 1
          /\ TimeIndex_getitem(w, 0, FALSE) = "t01"
          /\ TimeIndex_getitem(w, -1, FALSE) = [time |-> 0, index |-> "Init"]
          /\ TimeIndex_last(w) = "t02"

-----------------------------------------------------------------------------
(* Subdivision                                                                *)

\* the steps (positions in the whole index, from 1) of the first division
\* steps of window k, for a division of d steps
NonOverlapSteps(k, d) == ((k - 1) * d + 1)..(k * d)

\* C16: subdivide(division_hrs, overlap_hrs) partitions the whole index into
\* consecutive sub-windows: window k (from 0) starts at step k * division, it
\* holds its division steps followed by up to overlap further steps, never past
\* the end of the index, its times and string identifiers are the parent's for
\* those steps in order, and every step of the whole index is among the first
\* division steps of exactly one window.
C16_SubdividePartitions ==
    stage_times.made =>
        LET d == stage_times.division_hrs
            o == stage_times.overlap_hrs
            W == stage_times.windows
            len == Len(horizon.strings)
        IN /\ \A k \in 1..Len(W) :
                 LET first == (k - 1) * d + 1
                     last == IF k * d + o < len THEN k * d + o ELSE len
                 IN /\ k * d <= last
                    /\ W[k].times.values = SubSeq(horizon.times.values, first, last)
                    /\ W[k].strings = SubSeq(horizon.strings, first, last)
           /\ \A p \in 1..len :
                 Cardinality({k \in 1..Len(W) : p \in NonOverlapSteps(k, d)}) = 1

-----------------------------------------------------------------------------
(* Final conditions of a stage                                                *)

\* C17: get_finalconditions(sln), for a solved stage whose time index is a
\* sub-window with look-ahead overlap, completes without error and stores on
\* every generator a finalstatus (P, u, hoursinstatus) taken at the last
\* non-overlap step of the stage (step division of the window), not at a step
\* of the overlap.
C17_FinalStatusAtLastNonOverlapStep ==
    (StageEnded /\ sln.times._int_overlap > 0) =>
        /\ error = "none"
        /\ \A g \in 1..Len(generators) :
              /\ gen_status[g].finalstatus # None
              /\ LET f == gen_status[g].finalstatus[1]
                     atEnd == sln.generators_status[g][stage_times.division_hrs]
                 IN /\ DOMAIN f = {"P", "u", "hoursinstatus"}
                    /\ f.P = atEnd.P
                    /\ f.u = atEnd.u

-----------------------------------------------------------------------------
(* Power balance against the line flows                                       *)

SomeAngles == {-1, 0, 2}

\* the flow term of the power balance of bus k (from 1) at time t, for the
\* angles theta: minus the angle terms of the registered constraint
FlowTerm(k, t, theta) ==
    LET terms(i) == opt.constraints[i].expr.lhs
        ofAngles(i) ==
            SumSeq([n \in 1..Len(terms(i)) |->
                      IF terms(i)[n].var[1] = "angle"
                      THEN terms(i)[n].coef * theta[terms(i)[n].var[2]] ELSE 0])
    IN (-1) * ofAngles(CHOOSE i \in PowerBalanceAt(k, t) : TRUE)

\* the value the flow law of line n gives its flow at time t
FlowLawValue(n, t, theta) ==
    LET e == opt.constraints[CHOOSE i \in LineConstraintAt(n, "line flow", t) : TRUE].expr
    IN e.rhs.invX * (theta[e.rhs.plus] - theta[e.rhs.minus])

\* flows of the lines leaving bus k minus flows of the lines entering it
NetOutflow(k, t, theta) ==
    SumSeq([n \in 1..Len(lines) |->
              (IF lines[n].From = ps.buses[k].name THEN FlowLawValue(n, t, theta) ELSE 0)
              - (IF lines[n].To = ps.buses[k].name THEN FlowLawValue(n, t, theta) ELSE 0)])

\* C18: for every multi-bus system and every assignment of bus angles, the flow
\* term of bus i's power balance, the sum over j of B[i][j] * angle_j, equals
\* the flow-law values of the lines leaving bus i minus those of the lines
\* entering it; the flow terms of all buses then sum to zero, so that total
\* generation equals total load wherever every power balance holds.
C18_FlowTermIsNetLineFlow ==
    (opt.stage = "constraints" /\ NB >= 2) =>
        \A n \in 1..Len(opt.times) : \A theta \in [BusIdx(ps.buses) -> SomeAngles] :
            /\ \A k \in 1..NB :
                  FlowTerm(k, opt.times[n], theta) = NetOutflow(k, opt.times[n], theta)
            /\ SumSeq([k \in 1..NB |-> FlowTerm(k, opt.times[n], theta)]) = 0

-----------------------------------------------------------------------------
(* Consecutive stages                                                         *)

\* window k + 1 begins one interval after the last of the first division steps
\* of window k
InitialTimeIsLastNonOverlapStep ==
    stage_times.made =>
        \A k \in 1..(Len(stage_times.windows) - 1) :
            stage_times.windows[k + 1].initialTime.time
                = stage_times.windows[k].times.values[stage_times.division_hrs]

\* the stage just ended has a successor, and the finalstatus captured for it is
\* the status at the instant of the successor's initial-time marker
FinalStatusAtNextInitialTime ==
    (StageEnded /\ Len(stage_times.windows) >= 2 /\ sln.times = stage_times.windows[1]) =>
        /\ error = "none"
        /\ \A g \in 1..Len(generators) :
              /\ gen_status[g].finalstatus # None
              /\ LET next == stage_times.windows[2].initialTime.time
                     pos == CHOOSE p \in DOMAIN sln.times.times.values :
                                sln.times.times.values[p] = next
                 IN /\ gen_status[g].finalstatus[1].P = sln.generators_status[g][pos].P
                    /\ gen_status[g].finalstatus[1].u = sln.generators_status[g][pos].u

\* C19: for consecutive sub-windows k and k + 1 returned by subdivide, the
\* initialTime of window k + 1 (its first time minus the interval) is the time
\* of the last non-overlap step of window k, and the finalstatus that
\* get_finalconditions captures for stage k is the status at that instant, the
\* one at which set_initialconditions applies it for stage k + 1.
C19_HandoffAtSameInstant ==
    InitialTimeIsLastNonOverlapStep /\ FinalStatusAtNextInitialTime

====
